---- MODULE Spec2Model ----
(***************************************************************************)
(* ADICVTransformer (sktime/transformations/series/adi_cv.py): the         *)
(* constructor and _transform, as a state machine over one instance and    *)
(* the series its caller passes.                                           *)
(*                                                                         *)
(* Floating-point values are carried as exact fractions n/d in lowest      *)
(* terms, plus the two non-finite values the code can produce (NaN, +Inf). *)
(* numpy's default error state (warn, do not raise) is the one modelled.   *)
(***************************************************************************)
EXTENDS Integers, Sequences, FiniteSets, TLC

VARIABLES self, X, result, ref

vars == <<self, X, result, ref>>

\* ---------------------------------------------------------------- bounds
\* longest series the caller passes
MaxLen == 3
\* observations are drawn from -1 .. MaxVal
MaxVal == 2

\* ---------------------------------------------------------------- numbers
Abs(x) == IF x < 0 THEN -x ELSE x

RECURSIVE GCD(_, _)
GCD(a, b) == IF b = 0 THEN a ELSE GCD(b, a % b)

\* the float n/d (d # 0), in lowest terms with a positive denominator
Frac(n, d) ==
    LET g == GCD(Abs(n), Abs(d))
        s == IF d < 0 THEN -1 ELSE 1
    IN  [k |-> "fin", n |-> (s * n) \div g, d |-> Abs(d) \div g]

NaN == [k |-> "nan", n |-> 0, d |-> 1]
Inf == [k |-> "inf", n |-> 0, d |-> 1]
\* a local that was never assigned
Unset == [k |-> "unset", n |-> 0, d |-> 1]

\* a <= b on floats: every comparison with NaN is False
Le(a, b) ==
    IF a.k = "nan" \/ b.k = "nan" THEN FALSE
    ELSE IF b.k = "inf" THEN TRUE
    ELSE IF a.k = "inf" THEN FALSE
    ELSE a.n * b.d <= b.n * a.d

\* a / b on numpy scalars (a >= 0): x/0 is inf, 0/0 is nan, no exception
NpDiv(a, b) ==
    IF a.k = "nan" \/ b.k = "nan" THEN NaN
    ELSE IF b.k = "inf" THEN (IF a.k = "inf" THEN NaN ELSE Frac(0, 1))
    ELSE IF a.k = "inf" THEN Inf
    ELSE IF b.n = 0 THEN (IF a.n = 0 THEN NaN ELSE Inf)
    ELSE Frac(a.n * b.d, a.d * b.n)

\* a ** 2
Sq(a) == IF a.k = "fin" THEN Frac(a.n * a.n, a.d * a.d) ELSE a

\* ---------------------------------------------------------------- series
Vals == (-1) .. MaxVal

RECURSIVE Sum(_)
Sum(s) == IF s = <<>> THEN 0 ELSE Head(s) + Sum(Tail(s))

\* X.to_numpy().nonzero()[0]: the 0-based positions of the non-zero entries
NonZeroIndices(S) ==
    SelectSeq([i \in 1 .. Len(S) |-> i - 1], LAMBDA i : S[i + 1] # 0)

\* variant: the statistics taken over every observation, zeros included
AllValues(S, idx) == S

\* X.iloc[X_non_zero_indices].values
NonZeroValues(S, idx) == [j \in 1 .. Len(idx) |-> S[idx[j] + 1]]

\* np.mean: NaN on an empty array
Mean(v) == IF Len(v) = 0 THEN NaN ELSE Frac(Sum(v), Len(v))

\* np.std, carried as its square (the population variance): the mean of
\* (x - mean)^2, i.e. sum (N*x - s)^2 / N^3 with s the sum; NaN when empty
StdSquared(v) ==
    LET N == Len(v)
        s == Sum(v)
    IN  IF N = 0 THEN NaN
        ELSE Frac(Sum([j \in 1 .. N |-> (N * v[j] - s) * (N * v[j] - s)]),
                  N * N * N)

\* (sigma / mu) ** 2 with sigma >= 0 carried as sigma^2:
\* sigma/0 is inf for sigma > 0 and nan for sigma = 0, and stays so squared
CV2Value(v) == NpDiv(StdSquared(v), Sq(Mean(v)))

\* ---------------------------------------------------------------- ADI
ValidPolicies == {"pool", "trim", "ignore"}

\* adi_numerator of the branch taken (policy is one of the three, N >= 1
\* under "trim"); last_non_zero - first_non_zero is X_non_zero_indices[-1]
\* minus X_non_zero_indices[0]
AdiNumerator(policy, S, idx) ==
    IF policy = "trim" THEN idx[Len(idx)] - idx[1] ELSE Len(S)

\* variant: "trim" divides by N, as the class docstring writes it
AdiDenominatorDoc(policy, N) ==
    IF policy = "ignore" THEN N - 1 ELSE N

\* adi_denominator of the branch taken
AdiDenominator(policy, N) ==
    IF policy = "pool" THEN N ELSE N - 1

\* lines 194-209: [error, value]; error is "" when adi_value is bound.
\* "trim" indexes an empty array when N = 0 (IndexError) and divides numpy
\* integers (no exception on a zero denominator); "pool" and "ignore" divide
\* Python ints (ZeroDivisionError); any other policy leaves adi_numerator
\* unassigned, and line 209 raises UnboundLocalError
AdiValue(policy, S, idx) ==
    LET N   == Len(idx)
        num == AdiNumerator(policy, S, idx)
        den == AdiDenominator(policy, N)
    IN  IF policy \notin ValidPolicies
        THEN [error |-> "UnboundLocalError", value |-> Unset]
        ELSE IF policy = "trim"
        THEN IF N = 0
             THEN [error |-> "IndexError", value |-> Unset]
             ELSE [error |-> "", value |-> NpDiv(Frac(num, 1), Frac(den, 1))]
        ELSE IF den = 0
             THEN [error |-> "ZeroDivisionError", value |-> Unset]
             ELSE [error |-> "", value |-> Frac(num, den)]

\* ---------------------------------------------------------------- class
Unbound == "<unbound>"

\* variant: the low side excludes the threshold itself
ClassTypeStrict(adi_value, cv2_value, adi_threshold, cv_threshold) ==
    LET adi_low  == Le(adi_value, adi_threshold) /\ adi_value # adi_threshold
        cv2_low  == Le(cv2_value, cv_threshold) /\ cv2_value # cv_threshold
    IN  IF adi_low /\ cv2_low THEN "smooth"
        ELSE IF adi_low THEN "erratic"
        ELSE IF cv2_low THEN "intermittent"
        ELSE "lumpy"

\* variant: the high side computed as its own comparison (value > threshold)
\* instead of as the negation of the low side
ClassTypeGt(adi_value, cv2_value, adi_threshold, cv_threshold) ==
    LET adi_low  == Le(adi_value, adi_threshold)
        cv2_low  == Le(cv2_value, cv_threshold)
        adi_high == Le(adi_threshold, adi_value) /\ ~adi_low
        cv2_high == Le(cv_threshold, cv2_value) /\ ~cv2_low
    IN  IF adi_low /\ cv2_low THEN "smooth"
        ELSE IF adi_low /\ cv2_high THEN "erratic"
        ELSE IF adi_high /\ cv2_low THEN "intermittent"
        ELSE IF adi_high /\ cv2_high THEN "lumpy"
        ELSE Unbound

\* lines 217-229: the if/elif chain, which has no else branch
ClassType(adi_value, cv2_value, adi_threshold, cv_threshold) ==
    LET adi_low  == Le(adi_value, adi_threshold)
        cv2_low  == Le(cv2_value, cv_threshold)
        adi_high == ~adi_low
        cv2_high == ~cv2_low
    IN  IF adi_low /\ cv2_low THEN "smooth"
        ELSE IF adi_low /\ cv2_high THEN "erratic"
        ELSE IF adi_high /\ cv2_low THEN "intermittent"
        ELSE IF adi_high /\ cv2_high THEN "lumpy"
        ELSE Unbound

\* ---------------------------------------------------------------- frame
Range(s) == {s[i] : i \in 1 .. Len(s)}

\* lines 232-241: the dict, keys in insertion order
ReturnDict(features_internal, adi_value, cv2_value, class_type) ==
    LET has(f) == f \in Range(features_internal)
        keys == SelectSeq(<<"adi", "cv2", "class">>, has)
    IN  [columns |-> keys,
         row     |-> [c \in Range(keys) |->
                        IF c = "adi" THEN adi_value
                        ELSE IF c = "cv2" THEN cv2_value
                        ELSE class_type]]

\* variant: the reordering step left out
LocKeep(df, cols) == df

\* df.loc[:, cols]: the columns named by cols, in the order of cols
Loc(df, cols) ==
    [columns |-> cols, row |-> [c \in Range(cols) |-> df.row[c]]]

NoFrame == [columns |-> <<>>, row |-> <<>>]

NoResult ==
    [kind |-> "none", error |-> "", df |-> NoFrame,
     adi_value |-> Unset, cv2_value |-> Unset, class_type |-> Unbound]

Raise(e) == [NoResult EXCEPT !.kind = "error", !.error = e]

\* ADICVTransformer._transform(self, X): the exception raised or the frame
\* returned; adi_value, cv2_value and class_type are the locals at return
_transform(s, S) ==
    LET idx == NonZeroIndices(S)
        v   == NonZeroValues(S, idx)
        adi == AdiValue(s.adi_trim_handling, S, idx)
        cv2 == CV2Value(v)
        cls == ClassType(adi.value, cv2, s.adi_threshold, s.cv_threshold)
        fi  == s.features_internal
    IN  IF adi.error # "" THEN Raise(adi.error)
        ELSE IF "class" \in Range(fi) /\ cls = Unbound
        THEN Raise("UnboundLocalError")
        ELSE IF \E i \in 1 .. Len(fi) : fi[i] \notin {"adi", "cv2", "class"}
        THEN Raise("KeyError")
        ELSE [kind |-> "frame", error |-> "",
              df |-> Loc(ReturnDict(fi, adi.value, cv2, cls), fi),
              adi_value |-> adi.value, cv2_value |-> cv2, class_type |-> cls]

\* ---------------------------------------------------------------- constructor
\* features=None
None == <<"None">>
\* features="all": a str, which "for feature in features" walks char by char
All == <<"a", "l", "l">>

DefaultFeatures == <<"adi", "cv2", "class">>

\* all(feature in ["adi", "cv2", "class"] for feature in features)
AllValid(features) ==
    \A i \in 1 .. Len(features) : features[i] \in {"adi", "cv2", "class"}

\* variant: the None-to-default conversion left out
FeaturesInternalKeep(features) == features

\* self.features_internal after a constructor that did not raise
FeaturesInternal(features) ==
    IF features # None THEN features ELSE DefaultFeatures

\* the arguments the caller constructs with
FeatureNames == {"adi", "cv2", "class", "bogus"}

\* lists without a repeated entry
FeatureLists ==
    {f \in UNION {[1 .. n -> FeatureNames] : n \in 0 .. Cardinality(FeatureNames)} :
        \A i, j \in 1 .. Len(f) : i # j => f[i] # f[j]}

FeatureInputs == {None, All} \cup FeatureLists

\* <<adi_threshold, cv_threshold>>: the defaults (1.32, 0.49), and (1.5, 0)
ThresholdInputs == {<<Frac(33, 25), Frac(49, 100)>>, <<Frac(3, 2), Frac(0, 1)>>}

TrimInputs == ValidPolicies \cup {"average"}

\* ---------------------------------------------------------------- state
\* self: the instance; state "new" holds the arguments before __init__ has
\*   run, "ready" is a constructed instance, "failed" a constructor that raised
\* X: the series of the latest _transform call (empty before the first)
\* result: what that call returned or raised
\* ref: one earlier call on this instance, kept for comparison; between: a
\*   call on another series has happened since
Init ==
    /\ \E f \in FeatureInputs, th \in ThresholdInputs, t \in TrimInputs :
         self = [state |-> "new", error |-> "",
                 adi_threshold |-> th[1], cv_threshold |-> th[2],
                 features |-> f, adi_trim_handling |-> t,
                 features_internal |-> f]
    /\ X = <<>>
    /\ result = NoResult
    /\ ref = [set |-> FALSE, X |-> <<>>, result |-> NoResult, between |-> FALSE]

\* ADICVTransformer.__init__
Construct ==
    /\ self.state = "new"
    /\ self' = IF self.features # None /\ ~AllValid(self.features)
               THEN [self EXCEPT !.state = "failed", !.error = "ValueError"]
               ELSE [self EXCEPT !.state = "ready",
                                 !.features_internal = FeaturesInternal(self.features)]
    /\ UNCHANGED <<X, result, ref>>

\* S with a zero observation put in before position i (i = Len(S)+1: at the end)
InsertZero(S, i) == SubSeq(S, 1, i - 1) \o <<0>> \o SubSeq(S, i, Len(S))

\* S without its observation at position i
RemoveAt(S, i) == SubSeq(S, 1, i - 1) \o SubSeq(S, i + 1, Len(S))

\* The series the caller passes next: the latest one again, with one more
\* observation, or with one zero observation put in or taken out.  Once a
\* reference call is kept, only the non-zero observations stay as they are.
Passable ==
    LET again   == IF X = <<>> THEN {} ELSE {X}
        longer  == IF Len(X) < MaxLen /\ ~ref.set
                   THEN {Append(X, v) : v \in Vals} ELSE {}
        padded  == IF Len(X) < MaxLen
                   THEN {InsertZero(X, i) : i \in 1 .. Len(X) + 1} ELSE {}
        thinned == IF Len(X) > 1
                   THEN {RemoveAt(X, i) : i \in {j \in 1 .. Len(X) : X[j] = 0}}
                   ELSE {}
    IN  again \cup longer \cup padded \cup thinned

\* variant: the call drops the columns it has emitted from the instance's list
TransformDrift(Y, keep) ==
    /\ self.state = "ready"
    /\ X' = Y
    /\ result' = _transform(self, Y)
    /\ ref' = IF ref.set
              THEN [ref EXCEPT !.between = @ \/ Y # ref.X]
              ELSE IF keep
              THEN [set |-> TRUE, X |-> Y, result |-> _transform(self, Y),
                    between |-> FALSE]
              ELSE ref
    /\ self' = [self EXCEPT !.features_internal =
                  IF @ = <<>> THEN @ ELSE Tail(@)]

\* a call transformer._transform(Y); keep: remember it as the reference call
Transform(Y, keep) ==
    /\ self.state = "ready"
    /\ X' = Y
    /\ result' = _transform(self, Y)
    /\ ref' = IF ref.set
              THEN [ref EXCEPT !.between = @ \/ Y # ref.X]
              ELSE IF keep
              THEN [set |-> TRUE, X |-> Y, result |-> _transform(self, Y),
                    between |-> FALSE]
              ELSE ref
    /\ UNCHANGED self

Next ==
    \/ Construct
    \/ \E Y \in Passable, keep \in BOOLEAN : Transform(Y, keep)

Spec == Init /\ [][Next]_vars

\* ---------------------------------------------------------------- properties
Ready == self.state = "ready"
Called == result.kind # "none"
Returned == result.kind = "frame"
HasCol(c) == c \in Range(result.df.columns)
Labels == {"smooth", "erratic", "intermittent", "lumpy"}

\* the positions (1-based) of the non-zero observations of S
NonZeroAt(S) == {i \in 1 .. Len(S) : S[i] # 0}
CountNonZero(S) == Cardinality(NonZeroAt(S))
Least(I) == CHOOSE i \in I : \A j \in I : i <= j
Greatest(I) == CHOOSE i \in I : \A j \in I : j <= i

RECURSIVE SumAt(_, _), SumSqAt(_, _)
SumAt(S, I) ==
    IF I = {} THEN 0 ELSE LET i == Least(I) IN S[i] + SumAt(S, I \ {i})
SumSqAt(S, I) ==
    IF I = {} THEN 0 ELSE LET i == Least(I) IN S[i] * S[i] + SumSqAt(S, I \ {i})

\* the non-zero observations of S, in order
RECURSIVE NonZeroPart(_)
NonZeroPart(S) ==
    IF S = <<>> THEN <<>>
    ELSE IF Head(S) = 0 THEN NonZeroPart(Tail(S))
    ELSE <<Head(S)>> \o NonZeroPart(Tail(S))

\* C1: the class is the quadrant of (ADI, CV2): low/low smooth, low/high
\* erratic, high/low intermittent, high/high lumpy, where low means
\* value <= threshold; a value equal to its threshold is on the low side; the
\* class column, when emitted, carries that label.
C1_Quadrants ==
    Returned =>
        LET a    == result.adi_value
            c    == result.cv2_value
            lowA == Le(a, self.adi_threshold)
            lowC == Le(c, self.cv_threshold)
            want == IF lowA THEN (IF lowC THEN "smooth" ELSE "erratic")
                    ELSE (IF lowC THEN "intermittent" ELSE "lumpy")
        IN  /\ result.class_type = want
            /\ HasCol("class") => result.df.row["class"] = want
            /\ a = self.adi_threshold => want \in {"smooth", "erratic"}
            /\ c = self.cv_threshold => want \in {"smooth", "intermittent"}

C1_Witness ==
    /\ Returned /\ HasCol("class")
    /\ result.adi_value = self.adi_threshold
    /\ result.cv2_value = self.cv_threshold
    /\ result.df.row["class"] = "smooth"

C4_FeatureSubset ==
    (Returned /\ self.features # None /\ Len(self.features) >= 1) =>
        /\ result.df.columns = self.features
        /\ DOMAIN result.df.row = Range(self.features)

C4_Witness ==
    /\ Returned
    /\ self.features = <<"class", "adi">>
    /\ result.df.columns = <<"class", "adi">>

\* C5 (as claimed): a call on an all-zero series raises under pool, trim
\* and ignore.
C5_AllZeroRaises ==
    (Ready /\ Called /\ CountNonZero(X) = 0
        /\ self.adi_trim_handling \in ValidPolicies) => result.kind = "error"

\* C6 (as claimed): a call on a series with exactly one non-zero
\* observation raises under trim and under ignore.
C6_SingleNonZeroRaises ==
    (Ready /\ Called /\ CountNonZero(X) = 1
        /\ self.adi_trim_handling \in {"trim", "ignore"}) => result.kind = "error"

\* C7 (as claimed): a feature entry outside adi, cv2, class, or a
\* trim-handling value outside pool, trim, ignore, makes the constructor
\* fail, so no call on a constructed instance fails for its configuration.
C7_ConfigEager ==
    /\ (self.state # "new" /\ (self.features = None \/ AllValid(self.features))
           /\ self.adi_trim_handling \in ValidPolicies) => Ready
    /\ (self.state # "new" /\ ~(self.features = None \/ AllValid(self.features)))
           => self.state = "failed"
    /\ (self.state # "new" /\ self.adi_trim_handling \notin ValidPolicies)
           => self.state = "failed"
    /\ result.kind = "error" => result.error \notin {"UnboundLocalError", "KeyError"}

\* C8 (as claimed): with features "all" or None the constructor succeeds
\* and every frame has the columns adi, cv2, class in that order.
C8_AllOrNone ==
    (self.state # "new" /\ self.features \in {None, All}) =>
        /\ Ready
        /\ Returned => result.df.columns = DefaultFeatures

\* C8 (amended): with features None the constructor succeeds and every
\* frame has the columns adi, cv2, class in that order; with features
\* "all" the constructor raises ValueError.
C8_NoneDefault ==
    /\ (self.state # "new" /\ self.features = None) =>
          /\ Ready
          /\ self.features_internal = <<"adi", "cv2", "class">>
          /\ Returned =>
               /\ result.df.columns = <<"adi", "cv2", "class">>
               /\ DOMAIN result.df.row = {"adi", "cv2", "class"}
    /\ (self.state # "new" /\ self.features = All) =>
          /\ self.state = "failed"
          /\ self.error = "ValueError"

C8_Witness ==
    /\ self.features = None
    /\ Returned
    /\ result.df.columns = <<"adi", "cv2", "class">>

\* C9: a call leaves every attribute of the instance as it was, and a call
\* on the series of an earlier call has the outcome (frame or exception) of
\* that call, whatever was called in between.
C9_NoDrift ==
    [][/\ Ready => self' = self
       /\ (ref'.set /\ ref'.X = X') => result' = ref'.result]_vars

C9_Witness ==
    /\ ref.set /\ ref.between
    /\ ref.X = X
    /\ Returned
    /\ result = ref.result

\* C10: a call under pool, trim or ignore either raises while computing
\* ADI, or returns a frame with every configured column and one of the four
\* labels as class; a NaN ADI counts as high, a NaN or infinite CV2 as
\* high; the class is never left unbound.
C10_ClassBound ==
    (Ready /\ Called /\ self.adi_trim_handling \in ValidPolicies) =>
        \/ /\ result.kind = "error"
           /\ result.error \in {"IndexError", "ZeroDivisionError"}
        \/ /\ Returned
           /\ result.class_type \in Labels
           /\ result.df.columns = self.features_internal
           /\ DOMAIN result.df.row = Range(self.features_internal)
           /\ HasCol("class") => result.df.row["class"] \in Labels
           /\ result.adi_value.k = "nan"
                => result.class_type \in {"intermittent", "lumpy"}
           /\ result.cv2_value.k \in {"nan", "inf"}
                => result.class_type \in {"erratic", "lumpy"}

C10_Witness ==
    /\ Returned /\ HasCol("class")
    /\ result.adi_value.k = "nan"
    /\ result.df.row["class"] = "intermittent"

====
